---- MODULE Spec2Model ----
(***************************************************************************)
(* The style cascade of enaml/widgets/widget.py: Widget.restyle,           *)
(* Widget._restyle, Widget._get_ancestor_stylesheets, Widget.get_style and *)
(* Widget.get_stylesheet, over a tree of widgets.                          *)
(*                                                                         *)
(* Objects are records [kind, id].  A widget's `children` is the ordered   *)
(* list of its child objects: Widget, StyleSheet and Style objects.        *)
(* `style.match(widget)` and `sheet.styles()` belong to enaml.widgets      *)
(* .styling; they are inputs here: a table `match` and a table `styles`.   *)
(***************************************************************************)
EXTENDS Integers, Sequences, FiniteSets, TLC

\* Number of widgets of the tree; widget 1 is the root.
NumNodes == 3
\* Largest specificity a match predicate returns.
MaxSpecificity == 2

Nodes == 1..NumNodes

VARIABLES
    parent,           \* widget -> parent widget id, 0 for the root
    children,         \* widget -> ordered list of child objects
    proxy_is_active,  \* widget -> BOOLEAN
    app,              \* Application.instance(): AppObj or None
    app_stylesheet,   \* app.stylesheet: a StyleSheet object or None
    styles,           \* style sheet id -> ordered list of Style ids
    match,            \* Style id -> widget -> specificity, or Raise
    addr,             \* Style id -> position of the object in memory
    entry,            \* widget of the last restyle() call, 0 before any
    trace,            \* what the last restyle() call did, in order
    raised            \* the exception the last restyle() call let out

config == <<parent, children, proxy_is_active, app, app_stylesheet,
            styles, match, addr>>
vars == <<parent, children, proxy_is_active, app, app_stylesheet,
          styles, match, addr, entry, trace, raised>>

----------------------------------------------------------------------------
\* Objects

None == [kind |-> "None", id |-> 0]
WidgetObj(n) == [kind |-> "Widget", id |-> n]
StyleSheetObj(k) == [kind |-> "StyleSheet", id |-> k]
StyleObj(s) == [kind |-> "Style", id |-> s]
AppObj == [kind |-> "Application", id |-> 0]

\* style.match(widget) raising instead of returning a specificity
Raise == -1

\* The style sheets and the styles of the model: sheet 0 is the one the
\* application holds, sheets 1 and 2 are children of widgets; styles 5 and
\* 6 are Style children of widgets.
SheetIds == {0, 1, 2}
SheetStyles == [k \in SheetIds |->
                  CASE k = 0 -> <<1>>
                    [] k = 1 -> <<2, 3>>
                    [] k = 2 -> <<4>>]
StyleIds == 1..6

----------------------------------------------------------------------------
\* Sequence helpers

RECURSIVE Reverse(_)
Reverse(s) == IF s = <<>> THEN <<>> ELSE Append(Reverse(Tail(s)), Head(s))

RECURSIVE SetToSeq(_)
\* the elements of a set of integers, ascending
SetToSeq(S) ==
    IF S = {} THEN <<>>
    ELSE LET m == CHOOSE x \in S : \A y \in S : x <= y
         IN  <<m>> \o SetToSeq(S \ {m})

----------------------------------------------------------------------------
\* get_style, get_stylesheet

RECURSIVE FirstOfKind(_, _)
\* `for child in seq: if isinstance(child, kind): return child`; None when
\* the loop ends
FirstOfKind(seq, kind) ==
    IF seq = <<>> THEN None
    ELSE IF Head(seq).kind = kind THEN Head(seq)
    ELSE FirstOfKind(Tail(seq), kind)

get_style(self) == FirstOfKind(Reverse(children[self]), "Style")

get_stylesheet(self) == FirstOfKind(Reverse(children[self]), "StyleSheet")

----------------------------------------------------------------------------
\* _get_ancestor_stylesheets

RECURSIVE traverse_ancestors(_)
\* the ancestors of a widget, nearest first
traverse_ancestors(self) ==
    IF parent[self] = 0 THEN <<>>
    ELSE <<WidgetObj(parent[self])>> \o traverse_ancestors(parent[self])

RECURSIVE CollectSheets(_)
\* the loop of lines 251-255: for each ancestor widget that has a style
\* sheet, `sheets.append(w)`: the widget is appended, not its sheet
CollectSheets(ws) ==
    IF ws = <<>> THEN <<>>
    ELSE LET w == Head(ws)
             sheet == IF w.kind = "Widget" THEN get_stylesheet(w.id) ELSE None
         IN  (IF sheet # None THEN <<w>> ELSE <<>>) \o CollectSheets(Tail(ws))

_get_ancestor_stylesheets(self) ==
    LET sheets == CollectSheets(traverse_ancestors(self))
        withApp == IF app # None /\ app_stylesheet # None
                   THEN Append(sheets, app_stylesheet)
                   ELSE sheets
    IN  Reverse(withApp)

----------------------------------------------------------------------------
\* Matching (lines 223-236)

\* (specificity, style) tuples as list.sort() orders them: by specificity,
\* and for equal specificities by comparing the Style objects, which have
\* no ordering of their own and compare by their position in memory
TupleLess(a, b) ==
    \/ a[1] < b[1]
    \/ a[1] = b[1] /\ addr[a[2]] < addr[b[2]]

RECURSIVE Insert(_, _)
Insert(sorted, t) ==
    IF sorted = <<>> THEN <<t>>
    ELSE IF TupleLess(t, Head(sorted)) THEN <<t>> \o sorted
    ELSE <<Head(sorted)>> \o Insert(Tail(sorted), t)

RECURSIVE SortMatches(_)
\* matches.sort()
SortMatches(matches) ==
    IF matches = <<>> THEN <<>>
    ELSE Insert(SortMatches(Tail(matches)), Head(matches))

\* line 228: `if specificity > 0`
\* (variant: `>= 0`, which lets a rule that does not match through)
IsMatch_nonnegative(specificity) == specificity >= 0
IsMatch(specificity) == specificity > 0

RECURSIVE MatchStyles(_, _, _)
\* the loop of lines 226-229 over the rest `ss` of sheet.styles(), with the
\* matches so far; a raising match predicate ends it
MatchStyles(self, ss, matches) ==
    IF ss = <<>> THEN [matches |-> matches, exc |-> "None"]
    ELSE LET specificity == match[Head(ss)][self] IN
         IF specificity = Raise
         THEN [matches |-> matches, exc |-> "MatchError"]
         ELSE MatchStyles(self, Tail(ss),
                          IF IsMatch(specificity)
                          THEN Append(matches, <<specificity, Head(ss)>>)
                          ELSE matches)

\* these_styles.extend(style for _, style in matches), after the sort
\* (variant: the matches of a sheet put before those of the earlier sheets)
ExtendStyles_front(these_styles, matches) ==
    [i \in 1..Len(matches) |-> SortMatches(matches)[i][2]] \o these_styles
ExtendStyles(these_styles, matches) ==
    these_styles \o [i \in 1..Len(matches) |-> SortMatches(matches)[i][2]]

RECURSIVE MatchSheets(_, _, _)
\* the loop of lines 224-232 over the rest `sheets` of the list; an entry
\* that is no StyleSheet has no styles() and the call raises
MatchSheets(self, sheets, these_styles) ==
    IF sheets = <<>> THEN [styles |-> these_styles, exc |-> "None"]
    ELSE LET sheet == Head(sheets) IN
         IF sheet.kind # "StyleSheet"
         THEN [styles |-> these_styles, exc |-> "AttributeError"]
         ELSE LET m == MatchStyles(self, styles[sheet.id], <<>>) IN
              IF m.exc # "None"
              THEN [styles |-> these_styles, exc |-> m.exc]
              ELSE MatchSheets(self, Tail(sheets),
                               ExtendStyles(these_styles, m.matches))

\* lines 234-236
\* (variant: the Style child appended only if its own match is positive)
AppendStyle_unless_unmatched(self, these_styles, this_style) ==
    IF this_style # None /\ match[this_style.id][self] > 0
    THEN Append(these_styles, this_style.id)
    ELSE these_styles
AppendStyle(self, these_styles, this_style) ==
    IF this_style # None
    THEN Append(these_styles, this_style.id)
    ELSE these_styles

----------------------------------------------------------------------------
\* _restyle

\* An `ancestors` argument: None, or a list
NoAncestors == [is_none |-> TRUE, items |-> <<>>]
ListArg(l) == [is_none |-> FALSE, items |-> l]

Event(op, self, ancestors, sheets, these_styles, error) ==
    [op |-> op, node |-> self, ancestors |-> ancestors, sheets |-> sheets,
     styles |-> these_styles, error |-> error]

\* line 206
\* (variant: no guard)
Inactive_never(self) == FALSE
Inactive(self) == ~proxy_is_active[self]

\* line 212: `sheets = ancestors[:]` is a copy, so what the callee appends
\* to `sheets` does not show in the caller's list
\* (variant: `sheets = ancestors`, one list shared with the caller)
CallerList_shared(ancestors, sheets) == sheets
CallerList(ancestors, sheets) == ancestors

\* lines 215-216
OwnSheetAppended(sheets, this_sheet) ==
    IF this_sheet # None THEN Append(sheets, this_sheet) ELSE sheets

\* an exception of a child's _restyle is not caught (lines 219-221)
\* (variant: the exception swallowed and the walk carried on)
Propagates_swallowed(exc) == FALSE
Propagates(exc) == exc # "None"

RECURSIVE _restyle(_, _)
RECURSIVE RestyleChildren(_, _, _)

\* the loop of lines 219-221 over the rest `kids` of self.children; `sheets`
\* is the caller's list as it stands, `acc` what happened so far
RestyleChildren(kids, sheets, acc) ==
    IF kids = <<>> \/ Propagates(acc.exc)
    THEN [trace |-> acc.trace, exc |-> acc.exc, sheets |-> sheets]
    ELSE LET child == Head(kids) IN
         IF child.kind = "Widget"
         THEN LET r == _restyle(child.id, ListArg(sheets)) IN
              RestyleChildren(Tail(kids), r.caller_list,
                              [trace |-> acc.trace \o r.trace, exc |-> r.exc])
         ELSE RestyleChildren(Tail(kids), sheets, acc)

\* Widget._restyle(self, ancestors): the events of the call in order, the
\* exception it lets out ("None" when it returns), and the caller's list
\* after the call
_restyle(self, ancestors) ==
    IF Inactive(self)
    THEN [trace |-> <<Event("skip", self, ancestors.items, <<>>, <<>>, "None")>>,
          exc |-> "None", caller_list |-> ancestors.items]
    ELSE
    LET sheets0 == IF ancestors.is_none
                   THEN _get_ancestor_stylesheets(self)
                   ELSE ancestors.items
        sheets1 == OwnSheetAppended(sheets0, get_stylesheet(self))
        enter == Event("enter", self, sheets0, sheets1, <<>>, "None")
        kids == RestyleChildren(children[self], sheets1,
                                [trace |-> <<enter>>, exc |-> "None"])
        caller_list == IF ancestors.is_none THEN <<>>
                       ELSE CallerList(ancestors.items, kids.sheets)
    IN  IF Propagates(kids.exc)
        THEN [trace |-> kids.trace, exc |-> kids.exc,
              caller_list |-> caller_list]
        ELSE
        LET m == MatchSheets(self, kids.sheets, <<>>) IN
        IF m.exc # "None"
        THEN [trace |-> Append(kids.trace,
                               Event("raise", self, sheets0, kids.sheets,
                                     <<>>, m.exc)),
              exc |-> m.exc, caller_list |-> caller_list]
        ELSE
        LET these_styles == AppendStyle(self, m.styles, get_style(self)) IN
        [trace |-> Append(kids.trace,
                          Event("deliver", self, sheets0, kids.sheets,
                                these_styles, "None")),
         exc |-> "None", caller_list |-> caller_list]

----------------------------------------------------------------------------
\* The tree snapshots

\* self.children of every widget, from who owns what: the StyleSheet
\* children, the Style children, then the Widget children
BuildChildren(par, sheetOwner, styleOwner) ==
    [n \in Nodes |->
        [i \in 1..Cardinality({k \in DOMAIN sheetOwner : sheetOwner[k] = n})
           |-> StyleSheetObj(SetToSeq({k \in DOMAIN sheetOwner :
                                          sheetOwner[k] = n})[i])]
        \o [i \in 1..Cardinality({s \in DOMAIN styleOwner : styleOwner[s] = n})
           |-> StyleObj(SetToSeq({s \in DOMAIN styleOwner :
                                     styleOwner[s] = n})[i])]
        \o [i \in 1..Cardinality({c \in Nodes : par[c] = n})
           |-> WidgetObj(SetToSeq({c \in Nodes : par[c] = n})[i])]]

\* every tree over Nodes with root 1 in which a parent has a smaller id
Trees == {p \in [Nodes -> 0..NumNodes] :
            /\ p[1] = 0
            /\ \A n \in Nodes \ {1} : p[n] \in 1..(n - 1)}

Specificities == 0..MaxSpecificity

\* a match table that does not depend on the widget
Uniform(v) == [s \in StyleIds |-> [n \in Nodes |-> v[s]]]

\* Trees of every shape with widgets active or not, the style sheets and a
\* Style child placed anywhere, under one fixed match table
InitWalk ==
    /\ parent \in Trees
    /\ proxy_is_active \in [Nodes -> BOOLEAN]
    /\ \E a \in {<<None, None>>, <<AppObj, None>>,
                 <<AppObj, StyleSheetObj(0)>>} :
          app = a[1] /\ app_stylesheet = a[2]
    /\ \E o1 \in Nodes, o2 \in Nodes \cup {0}, o5 \in Nodes \cup {0} :
          children = BuildChildren(parent, (1 :> o1) @@ (2 :> o2),
                                   (5 :> o5))
    /\ styles = SheetStyles
    /\ match = [s \in StyleIds |-> [n \in Nodes |->
                  CASE s = 1 -> 1
                    [] s = 2 -> 2
                    [] s = 3 -> IF n % 2 = 0 THEN 1 ELSE 0
                    [] s = 4 -> 1
                    [] OTHER -> 0]]
    /\ addr = [s \in StyleIds |-> s]

\* Every match table (uniform over the widgets) and both memory orders of
\* the styles, in the tree whose widgets are all children of the root:
\* sheet 1 on the root, sheet 2 and two Style children on another widget
InitCascade ==
    /\ parent = [n \in Nodes |-> IF n = 1 THEN 0 ELSE 1]
    /\ proxy_is_active = [n \in Nodes |-> TRUE]
    /\ app = AppObj
    /\ app_stylesheet = StyleSheetObj(0)
    /\ \E o \in Nodes \ {1} :
          children = BuildChildren(parent, (1 :> 1) @@ (2 :> o),
                                   (5 :> o) @@ (6 :> o))
    /\ styles = SheetStyles
    /\ \E v \in [1..4 -> Specificities \cup {Raise}],
          w \in {0, 1, Raise} :
          match = Uniform([s \in StyleIds |-> IF s \in 1..4 THEN v[s] ELSE w])
    /\ addr \in {[s \in StyleIds |-> s], [s \in StyleIds |-> 7 - s]}

Init ==
    /\ InitWalk \/ InitCascade
    /\ entry = 0
    /\ trace = <<>>
    /\ raised = "None"

\* Widget.restyle(self)
restyle(self) ==
    LET r == _restyle(self, NoAncestors) IN
    /\ entry' = self
    /\ trace' = r.trace
    /\ raised' = r.exc
    /\ UNCHANGED config

Next == \E self \in Nodes : restyle(self)

Spec == Init /\ [][Next]_vars

----------------------------------------------------------------------------
\* What the claims speak of

Events == 1..Len(trace)

\* the proper ancestors of a widget
AncestorsOf(n) ==
    {traverse_ancestors(n)[i].id : i \in 1..Len(traverse_ancestors(n))}

\* the positions of the children of a kind in a widget's children
ChildrenOfKind(n, kind) ==
    {i \in 1..Len(children[n]) : children[n][i].kind = kind}

Last(S) == CHOOSE i \in S : \A j \in S : j <= i

\* a widget's own Scope as a list: its last StyleSheet child, if any
OwnScope(n) ==
    IF ChildrenOfKind(n, "StyleSheet") = {} THEN <<>>
    ELSE <<children[n][Last(ChildrenOfKind(n, "StyleSheet"))]>>

RECURSIVE ScopesAbove(_)
\* the Scopes of the Scope-owning proper ancestors, farthest first
ScopesAbove(n) ==
    IF parent[n] = 0 THEN <<>>
    ELSE ScopesAbove(parent[n]) \o OwnScope(parent[n])

GlobalScope ==
    IF app # None /\ app_stylesheet # None THEN <<app_stylesheet>> ELSE <<>>

RECURSIVE PathScopes(_)
\* the Scopes of the Scope-owning widgets on the path from the entry widget
\* down to n, both included, in path order
PathScopes(n) ==
    IF n = entry \/ parent[n] = 0 THEN OwnScope(n)
    ELSE PathScopes(parent[n]) \o OwnScope(n)

\* the position in a chain of the sheet that holds style s, 0 if none does
SheetPos(chain, s) ==
    IF \E i \in 1..Len(chain) : chain[i].kind = "StyleSheet"
           /\ \E a \in 1..Len(styles[chain[i].id]) : styles[chain[i].id][a] = s
    THEN CHOOSE i \in 1..Len(chain) : chain[i].kind = "StyleSheet"
           /\ \E a \in 1..Len(styles[chain[i].id]) : styles[chain[i].id][a] = s
    ELSE 0

\* the position of style s in its sheet's styles()
AuthoredAt(k, s) == CHOOSE a \in 1..Len(styles[k]) : styles[k][a] = s

NoMatchRaises == \A s \in StyleIds, n \in Nodes : match[s][n] # Raise

RECURSIVE PostOrder(_)
RECURSIVE PostOrderOver(_)
\* the widgets a pass entered at n delivers to when nothing raises: the
\* active widgets reached through active widgets, children before parent
PostOrderOver(kids) ==
    IF kids = <<>> THEN <<>>
    ELSE (IF Head(kids).kind = "Widget" THEN PostOrder(Head(kids).id) ELSE <<>>)
         \o PostOrderOver(Tail(kids))
PostOrder(n) ==
    IF ~proxy_is_active[n] THEN <<>>
    ELSE PostOrderOver(children[n]) \o <<n>>

\* the widgets delivered to in the last pass, in order
Delivered ==
    LET d == SelectSeq(trace, LAMBDA e : e.op = "deliver")
    IN  [i \in 1..Len(d) |-> d[i].node]

----------------------------------------------------------------------------
\* C1 as stated: when a pass reaches an inactive widget, the widget gets no
\* delivery and each of its children is still visited; every active child
\* of an inactive widget gets its delivery in that pass.
C1_PerNodeGuard ==
    raised = "None" =>
      \A i \in Events : trace[i].op = "skip" =>
        /\ \A j \in Events : trace[j].op = "deliver" =>
              trace[j].node # trace[i].node
        /\ \A c \in Nodes : parent[c] = trace[i].node =>
              /\ \E j \in Events : trace[j].node = c
              /\ proxy_is_active[c] =>
                    \E j \in Events : trace[j].op = "deliver"
                                        /\ trace[j].node = c

\* C1 amended: the guard cuts the subtree off. An inactive widget reached
\* by a pass gets no delivery, and no widget below an inactive widget is
\* visited in the pass, active or not.
C1_SubtreeGuard ==
    \A i \in Events :
      /\ trace[i].op = "skip" <=> ~proxy_is_active[trace[i].node]
      /\ trace[i].node # entry => proxy_is_active[parent[trace[i].node]]
      /\ trace[i].op = "skip" =>
            \A j \in Events : j # i =>
               trace[j].node \notin {trace[i].node}
               /\ trace[i].node \notin AncestorsOf(trace[j].node)

\* a pass without failure reached an inactive widget that has an active child
C1_Witness ==
    /\ raised = "None"
    /\ \E i \in Events :
          /\ trace[i].op = "skip"
          /\ trace[i].node # entry
          /\ \E c \in Nodes : parent[c] = trace[i].node /\ proxy_is_active[c]

\* C2 as stated: the chain a pass hands down to a widget is the chain that
\* _get_ancestor_stylesheets computes for that widget from scratch.
C2_PassedDownIsCollected ==
    \A i \in Events :
      trace[i].op = "enter" /\ trace[i].node # entry =>
        trace[i].ancestors = _get_ancestor_stylesheets(trace[i].node)

\* C3 as stated: the chain collected for the entry widget is the global
\* scope, if there is one, then the Scopes of the Scope-owning proper
\* ancestors from the farthest to the nearest; all entries are Scopes.
C3_CollectsScopes ==
    \A i \in Events :
      trace[i].op = "enter" /\ trace[i].node = entry =>
        /\ trace[i].ancestors = GlobalScope \o ScopesAbove(entry)
        /\ \A a \in 1..Len(trace[i].ancestors) :
              trace[i].ancestors[a].kind = "StyleSheet"

\* C4: a list delivered to a widget that has a Style child ends with the
\* last Style child, whatever the rules of the chain and whatever the
\* Style's own match predicate would return.
C4_OverrideLast ==
    \A i \in Events :
      trace[i].op = "deliver"
        /\ ChildrenOfKind(trace[i].node, "Style") # {} =>
        /\ trace[i].styles # <<>>
        /\ trace[i].styles[Len(trace[i].styles)] =
             children[trace[i].node]
                     [Last(ChildrenOfKind(trace[i].node, "Style"))].id

\* a delivery to a widget with two Style children, the last of which does
\* not match it, after a rule of the highest specificity
C4_Witness ==
    \E i \in Events :
      /\ trace[i].op = "deliver"
      /\ Cardinality(ChildrenOfKind(trace[i].node, "Style")) = 2
      /\ Len(trace[i].styles) >= 2
      /\ \E p \in 1..Len(trace[i].styles) :
            match[trace[i].styles[p]][trace[i].node] = MaxSpecificity
      /\ match[trace[i].styles[Len(trace[i].styles)]][trace[i].node] <= 0

\* C5: in a delivered list a rule of an earlier sheet of the chain comes
\* before every rule of a later sheet, whatever their specificities.
C5_ScopeOrder ==
    \A i \in Events : trace[i].op = "deliver" =>
      \A p, q \in 1..Len(trace[i].styles) :
        LET sp == SheetPos(trace[i].sheets, trace[i].styles[p])
            sq == SheetPos(trace[i].sheets, trace[i].styles[q])
        IN  sp # 0 /\ sq # 0 /\ sp < sq => p < q

\* a delivered list with rules of two sheets, the later sheet's rule of
\* the lower specificity
C5_Witness ==
    \E i \in Events :
      /\ trace[i].op = "deliver"
      /\ \E p, q \in 1..Len(trace[i].styles) :
            LET sp == SheetPos(trace[i].sheets, trace[i].styles[p])
                sq == SheetPos(trace[i].sheets, trace[i].styles[q])
            IN  /\ sp # 0 /\ sq # 0 /\ sp < sq
                /\ match[trace[i].styles[q]][trace[i].node]
                     < match[trace[i].styles[p]][trace[i].node]

\* C6 as stated: the rules one sheet contributes to a delivered list are in
\* ascending specificity, and rules of equal specificity are in the order
\* of the sheet's styles().
C6_StableWithinScope ==
    \A i \in Events : trace[i].op = "deliver" =>
      \A p, q \in 1..Len(trace[i].styles) :
        LET n == trace[i].node
            a == trace[i].styles[p]
            b == trace[i].styles[q]
            k == SheetPos(trace[i].sheets, a)
        IN  p < q /\ k # 0 /\ k = SheetPos(trace[i].sheets, b) =>
              /\ match[a][n] <= match[b][n]
              /\ match[a][n] = match[b][n] =>
                   AuthoredAt(trace[i].sheets[k].id, a)
                     < AuthoredAt(trace[i].sheets[k].id, b)

\* C7 as stated: a rule whose match predicate returns 0 for a widget is in
\* no list delivered to the widget; a widget with no scope at all and no
\* Style child is delivered the empty list.
C7_NoZeroSpecificity ==
    \A i \in Events : trace[i].op = "deliver" =>
      /\ \A p \in 1..Len(trace[i].styles) :
            match[trace[i].styles[p]][trace[i].node] # 0
      /\ (/\ GlobalScope \o ScopesAbove(trace[i].node)
                \o OwnScope(trace[i].node) = <<>>
          /\ ChildrenOfKind(trace[i].node, "Style") = {})
         => trace[i].styles = <<>>

\* C7 amended: a rule of a sheet of the chain whose match predicate does
\* not return a positive specificity for a widget is in no list delivered
\* to the widget; the one entry that may not match is the widget's own
\* last Style child, at the end.  A widget with no scope at all and no
\* Style child is delivered the empty list.
C7_NoZeroSpecificityInScopes ==
    \A i \in Events : trace[i].op = "deliver" =>
      /\ \A p \in 1..Len(trace[i].styles) :
            match[trace[i].styles[p]][trace[i].node] <= 0 =>
              /\ p = Len(trace[i].styles)
              /\ ChildrenOfKind(trace[i].node, "Style") # {}
              /\ trace[i].styles[p] =
                   children[trace[i].node]
                           [Last(ChildrenOfKind(trace[i].node, "Style"))].id
      /\ \A p \in 1..Len(trace[i].styles) :
            SheetPos(trace[i].sheets, trace[i].styles[p]) # 0 =>
               match[trace[i].styles[p]][trace[i].node] > 0
      /\ (/\ GlobalScope \o ScopesAbove(trace[i].node)
                \o OwnScope(trace[i].node) = <<>>
          /\ ChildrenOfKind(trace[i].node, "Style") = {})
         => trace[i].styles = <<>>

\* a delivery of a list that holds a matching rule of a sheet and leaves
\* out a rule of the same chain that returned 0
C7_Witness ==
    \E i \in Events :
      /\ trace[i].op = "deliver"
      /\ \E p \in 1..Len(trace[i].styles) :
            SheetPos(trace[i].sheets, trace[i].styles[p]) # 0
      /\ \E s \in StyleIds :
            /\ SheetPos(trace[i].sheets, s) # 0
            /\ match[s][trace[i].node] = 0

\* C8 as stated, for the passes in which no match predicate raises: the
\* deliveries of a pass are the post-order of the visited active widgets
\* of the entry widget's subtree, one delivery each.
C8_PostOrderDeliveries ==
    entry # 0 /\ NoMatchRaises => Delivered = PostOrder(entry)

\* C9: a failure while a widget is resolved ends the pass: it is the last
\* event, it reaches the caller of restyle(), the widget and its ancestors
\* get no delivery, and a pass lets out an exception only this way.
C9_FailurePropagates ==
    /\ \A i \in Events : trace[i].op = "raise" =>
          /\ i = Len(trace)
          /\ raised = trace[i].error
          /\ raised # "None"
          /\ \A j \in Events : trace[j].op = "deliver" =>
                /\ j < i
                /\ trace[j].node # trace[i].node
                /\ trace[j].node \notin AncestorsOf(trace[i].node)
    /\ raised # "None" =>
          trace # <<>> /\ trace[Len(trace)].op = "raise"

\* a match predicate raised after a delivery was made in the pass, for a
\* widget below the entry widget; the delivery is still on record
C9_Witness ==
    /\ raised = "MatchError"
    /\ trace[Len(trace)].node # entry
    /\ \E j \in Events : trace[j].op = "deliver"

\* C10: the chain a visited widget is resolved with is the entry widget's
\* collected chain followed by the Scopes of the Scope-owning widgets on
\* the path from the entry widget to it, its own last; nothing of another
\* branch or of a descendant is in it.
C10_ChainIsPath ==
    \A i \in Events : trace[i].op # "skip" =>
      trace[i].sheets =
        _get_ancestor_stylesheets(entry) \o PathScopes(trace[i].node)

\* a widget resolved after a sibling that owns a Scope, both below an
\* entry widget that owns one
C10_Witness ==
    \E i, j \in Events :
      /\ i < j
      /\ trace[i].op = "deliver" /\ trace[j].op = "deliver"
      /\ parent[trace[i].node] = parent[trace[j].node]
      /\ OwnScope(trace[i].node) # <<>>
      /\ OwnScope(entry) # <<>>
      /\ trace[j].sheets # <<>>

====
